---- MODULE Spec2Model ----
(***************************************************************************)
(* Model of pkg/jx/cmd/step_next_version.go: the "jx step next-version"    *)
(* pipeline step.  Strings are sequences of one-character strings, so that *)
(* parsing, formatting and the regular-expression substitution are         *)
(* computed character by character as the code computes them.              *)
(***************************************************************************)
EXTENDS Integers, Sequences, FiniteSets, TLC

(***************************************************************************)
(* Characters and the string helpers of package strings                    *)
(***************************************************************************)
DigitChars == <<"0", "1", "2", "3", "4", "5", "6", "7", "8", "9">>

Digits == {DigitChars[i] : i \in 1..10}

Letters ==
    {"a", "b", "c", "d", "e", "f", "g", "h", "i", "j", "k", "l", "m", "n",
     "o", "p", "q", "r", "s", "t", "u", "v", "w", "x", "y", "z",
     "A", "B", "C", "D", "E", "F", "G", "H", "I", "J", "K", "L", "M", "N",
     "O", "P", "Q", "R", "S", "T", "U", "V", "W", "X", "Y", "Z"}

IsDigit(c) == c \in Digits

DigitVal(c) == CHOOSE i \in 0..9 : DigitChars[i + 1] = c

AllIn(s, set) == \A i \in 1..Len(s) : s[i] \in set

\* strconv / %d : decimal text of a non-negative integer
RECURSIVE Itoa(_)
Itoa(n) ==
    IF n < 10 THEN <<DigitChars[n + 1]>>
    ELSE Itoa(n \div 10) \o <<DigitChars[(n % 10) + 1]>>

\* strconv.ParseInt / ParseUint on a non-empty all-digit string
RECURSIVE Atoi(_)
Atoi(s) ==
    IF s = <<>> THEN 0
    ELSE 10 * Atoi(SubSeq(s, 1, Len(s) - 1)) + DigitVal(s[Len(s)])

HasPrefix(s, p) == Len(s) >= Len(p) /\ SubSeq(s, 1, Len(p)) = p

HasSuffix(s, p) == Len(s) >= Len(p) /\ SubSeq(s, Len(s) - Len(p) + 1, Len(s)) = p

TrimPrefix(s, p) == IF HasPrefix(s, p) THEN SubSeq(s, Len(p) + 1, Len(s)) ELSE s

TrimSuffix(s, p) == IF HasSuffix(s, p) THEN SubSeq(s, 1, Len(s) - Len(p)) ELSE s

\* strings.Index, 1-based; 0 when sub does not occur
IndexOf(s, sub) ==
    LET hits == {i \in 1..(Len(s) - Len(sub) + 1) : SubSeq(s, i, i + Len(sub) - 1) = sub}
    IN  IF hits = {} THEN 0 ELSE CHOOSE i \in hits : \A j \in hits : i <= j

Contains(s, sub) == IndexOf(s, sub) # 0

\* strings.Split(s, sep) for a one-character separator
RECURSIVE Split(_, _)
Split(s, sep) ==
    LET i == IndexOf(s, <<sep>>)
    IN  IF i = 0 THEN <<s>>
        ELSE <<SubSeq(s, 1, i - 1)>> \o Split(SubSeq(s, i + 1, Len(s)), sep)

\* strings.SplitN(s, sep, n)
RECURSIVE SplitN(_, _, _)
SplitN(s, sep, n) ==
    LET i == IndexOf(s, <<sep>>)
    IN  IF n <= 1 \/ i = 0 THEN <<s>>
        ELSE <<SubSeq(s, 1, i - 1)>> \o SplitN(SubSeq(s, i + 1, Len(s)), sep, n - 1)

\* strings.Join(parts, sep)
RECURSIVE Join(_, _)
Join(parts, sep) ==
    IF parts = <<>> THEN <<>>
    ELSE IF Len(parts) = 1 THEN parts[1]
    ELSE parts[1] \o sep \o Join(Tail(parts), sep)

WhiteSpace == {" ", "\t", "\r"}

RECURSIVE TrimLeft(_)
TrimLeft(s) == IF s # <<>> /\ s[1] \in WhiteSpace THEN TrimLeft(Tail(s)) ELSE s

RECURSIVE TrimRight(_)
TrimRight(s) ==
    IF s # <<>> /\ s[Len(s)] \in WhiteSpace THEN TrimRight(SubSeq(s, 1, Len(s) - 1)) ELSE s

TrimSpace(s) == TrimRight(TrimLeft(s))

\* bufio.Scanner with ScanLines: the lines of a text, no empty line after a final newline
ScanLines(text) ==
    LET parts == Split(text, "\n")
    IN  IF parts[Len(parts)] = <<>> THEN SubSeq(parts, 1, Len(parts) - 1) ELSE parts

(***************************************************************************)
(* github.com/hashicorp/go-version: tolerant versions                      *)
(***************************************************************************)
NoVersion == [ok |-> FALSE, segs |-> <<>>, pre |-> <<>>]

PreChars == Digits \cup Letters \cup {"-"}

\* length of the longest prefix of s made of digits and dots
RECURSIVE NumericPrefixLen(_)
NumericPrefixLen(s) ==
    IF s # <<>> /\ (IsDigit(s[1]) \/ s[1] = ".") THEN 1 + NumericPrefixLen(Tail(s)) ELSE 0

\* version.NewVersion: v?N(.N)* then an optional pre-release, "-id" or "id"
\* starting with a letter; fewer than three segments are padded with zeros
version_NewVersion(raw) ==
    LET s    == TrimPrefix(raw, <<"v">>)
        n    == NumericPrefixLen(s)
        num  == SubSeq(s, 1, n)
        rest == SubSeq(s, n + 1, Len(s))
        strs == Split(num, ".")
        okNum == n > 0 /\ \A i \in 1..Len(strs) : strs[i] # <<>>
        okPre == \/ rest = <<>>
                 \/ rest[1] = "-" /\ Len(rest) > 1 /\ AllIn(Tail(rest), PreChars)
                 \/ rest[1] \in Letters /\ AllIn(rest, PreChars)
        segs == [i \in 1..Len(strs) |-> Atoi(strs[i])]
        pad  == IF Len(segs) >= 3 THEN segs
                ELSE [i \in 1..3 |-> IF i <= Len(segs) THEN segs[i] ELSE 0]
    IN  IF okNum /\ okPre
        THEN [ok |-> TRUE, segs |-> pad,
              pre |-> IF rest # <<>> /\ rest[1] = "-" THEN Tail(rest) ELSE rest]
        ELSE NoVersion

\* Version.String: segments joined by dots, then "-" and the pre-release
VersionString(v) ==
    Join([i \in 1..Len(v.segs) |-> Itoa(v.segs[i])], <<".">>)
        \o (IF v.pre = <<>> THEN <<>> ELSE <<"-">> \o v.pre)

SegAt(v, i) == IF i <= Len(v.segs) THEN v.segs[i] ELSE 0

\* the characters of identifiers in ASCII order, for comparing them as strings
AsciiOrder ==
    <<"-", "0", "1", "2", "3", "4", "5", "6", "7", "8", "9",
      "A", "B", "C", "D", "E", "F", "G", "H", "I", "J", "K", "L", "M",
      "N", "O", "P", "Q", "R", "S", "T", "U", "V", "W", "X", "Y", "Z",
      "a", "b", "c", "d", "e", "f", "g", "h", "i", "j", "k", "l", "m",
      "n", "o", "p", "q", "r", "s", "t", "u", "v", "w", "x", "y", "z">>

CharRank(c) == CHOOSE i \in 1..Len(AsciiOrder) : AsciiOrder[i] = c

RECURSIVE StrLess(_, _)
StrLess(a, b) ==
    IF b = <<>> THEN FALSE
    ELSE IF a = <<>> THEN TRUE
    ELSE IF a[1] = b[1] THEN StrLess(Tail(a), Tail(b))
    ELSE CharRank(a[1]) < CharRank(b[1])

\* comparePrereleases = -1: a release is greater than any of its pre-releases
PreLess(a, b) ==
    IF a = b THEN FALSE
    ELSE IF a = <<>> THEN FALSE
    ELSE IF b = <<>> THEN TRUE
    ELSE IF AllIn(a, Digits) /\ AllIn(b, Digits) THEN Atoi(a) < Atoi(b)
    ELSE IF AllIn(a, Digits) THEN TRUE
    ELSE IF AllIn(b, Digits) THEN FALSE
    ELSE StrLess(a, b)

\* Version.LessThan: segments first (missing ones count as 0), then pre-release
VersionLess(a, b) ==
    LET n    == IF Len(a.segs) > Len(b.segs) THEN Len(a.segs) ELSE Len(b.segs)
        diff == {i \in 1..n : SegAt(a, i) # SegAt(b, i)}
    IN  IF diff = {} THEN PreLess(a.pre, b.pre)
        ELSE LET i == CHOOSE k \in diff : \A j \in diff : k <= j
             IN  SegAt(a, i) < SegAt(b, i)

(***************************************************************************)
(* github.com/blang/semver: strict versions                                *)
(***************************************************************************)
NoSemver == [ok |-> FALSE, Major |-> 0, Minor |-> 0, Patch |-> 0]

NumericOK(s) == s # <<>> /\ AllIn(s, Digits) /\ ~(Len(s) > 1 /\ s[1] = "0")

\* semver.Parse: exactly major.minor.patch, no leading zeros, then an
\* optional "-pre" whose dot-separated identifiers are alphanumeric
semver_Parse(s) ==
    LET parts == SplitN(s, ".", 3)
    IN  IF Len(parts) # 3 THEN NoSemver
        ELSE LET dash     == IndexOf(parts[3], <<"-">>)
                 patchStr == IF dash = 0 THEN parts[3] ELSE SubSeq(parts[3], 1, dash - 1)
                 preStr   == IF dash = 0 THEN <<>> ELSE SubSeq(parts[3], dash + 1, Len(parts[3]))
                 ids      == Split(preStr, ".")
                 okPre    == dash = 0 \/
                             \A i \in 1..Len(ids) :
                                 /\ ids[i] # <<>>
                                 /\ AllIn(ids[i], PreChars)
                                 /\ (AllIn(ids[i], Digits) => NumericOK(ids[i]))
             IN  IF NumericOK(parts[1]) /\ NumericOK(parts[2]) /\ NumericOK(patchStr) /\ okPre
                 THEN [ok |-> TRUE, Major |-> Atoi(parts[1]), Minor |-> Atoi(parts[2]),
                       Patch |-> Atoi(patchStr)]
                 ELSE NoSemver

\* fmt.Sprintf("%d.%d.%d", major, minor, patch)
FormatVersion(major, minor, patch) ==
    Itoa(major) \o <<".">> \o Itoa(minor) \o <<".">> \o Itoa(patch)

(***************************************************************************)
(* File names, errors and the file system                                  *)
(***************************************************************************)
packagejson == "package.json"

chartyaml == "Chart.yaml"

pomxml == "pom.xml"

makefile == "Makefile"

buildgradle == "build.gradle"

VERSIONFile == "VERSION"

FileNames == {VERSIONFile, packagejson, chartyaml, pomxml, makefile, buildgradle}

Nil == "nil"

ErrFetchTags == "error fetching tags"

ErrGitTag == "git tag failed"

ErrNoTags == "no existing tags found"

ErrSemver == "semver: invalid version"

ErrMalformed == "Malformed version"

ErrNoFilename == "no filename flag set to work out next semantic version"

ErrNoRecognisedFile == "no recognised file to obtain current version from"

ErrCannotFindVersion == "cannot find version for file"

ErrRead == "open: no such file or directory"

ErrWrite == "write failed"

ErrUnrecognisedFilename == "unrecognised filename"

ErrGitAdd == "git add failed"

ErrGitCommit == "git commit failed"

ErrStepTag == "step tag failed"

Panic == "panic: runtime error: index out of range"

NoFile == [exists |-> FALSE, data |-> <<>>]

File(data) == [exists |-> TRUE, data |-> data]

(***************************************************************************)
(* getLatestTag                                                            *)
(***************************************************************************)
\* sort.Sort(version.Collection): ascending by Version.LessThan
RECURSIVE SortVersions(_)
SortVersions(vs) ==
    IF Len(vs) <= 1 THEN vs
    ELSE LET rest == SortVersions(Tail(vs))
             k    == Cardinality({i \in 1..Len(rest) : VersionLess(rest[i], Head(vs))})
         IN  SubSeq(rest, 1, k) \o <<Head(vs)>> \o SubSeq(rest, k + 1, Len(rest))

ZeroTag == <<"0", ".", "0", ".", "0">>

\* the last tag listed taken as the latest, without sorting
LatestOf_Unsorted(versions) ==
    IF Len(versions) = 0 THEN [tag |-> ZeroTag, err |-> ErrNoTags]
    ELSE [tag |-> VersionString(versions[Len(versions)]), err |-> Nil]

\* lines 264-289: the parsed tags, sorted; the last one is the latest
LatestOf(versions) ==
    IF Len(versions) = 0 THEN [tag |-> ZeroTag, err |-> ErrNoTags]
    ELSE [tag |-> VersionString(SortVersions(versions)[Len(versions)]), err |-> Nil]

\* lines 244-262: the tags, each without its leading "v"
VersionsRaw(tags) == [i \in 1..Len(tags) |-> TrimPrefix(tags[i], <<"v">>)]

IsParsed(v) == v.ok

ParsedVersions(raws) ==
    SelectSeq([i \in 1..Len(raws) |-> version_NewVersion(raws[i])], IsParsed)

TagsOf(out) == Split(TrimSuffix(out, <<"\n">>), "\n")

LatestAmong(tags) ==
    IF Len(tags) = 0 THEN [tag |-> ZeroTag, err |-> ErrNoTags]
    ELSE LatestOf(ParsedVersions(VersionsRaw(tags)))

WithCalls(r, calls) == [tag |-> r.tag, err |-> r.err, calls |-> calls]

getLatestTag(out, fetchOk, tagOk) ==
    IF ~fetchOk THEN [tag |-> <<>>, err |-> ErrFetchTags, calls |-> <<"git fetch">>]
    ELSE IF ~tagOk THEN [tag |-> <<>>, err |-> ErrGitTag, calls |-> <<"git fetch", "git tag">>]
    ELSE WithCalls(LatestAmong(TagsOf(out)), <<"git fetch", "git tag">>)

(***************************************************************************)
(* getVersion: the version a manifest declares                             *)
(***************************************************************************)
Kw_version == <<"v", "e", "r", "s", "i", "o", "n">>

Kw_VERSION == <<"V", "E", "R", "S", "I", "O", "N">>

\* the text between the first occurrence of open and the next occurrence of close
Between(text, open, close) ==
    LET i == IndexOf(text, open)
    IN  IF i = 0 THEN <<>>
        ELSE LET after == SubSeq(text, i + Len(open), Len(text))
                 j     == IndexOf(after, close)
             IN  IF j = 0 THEN <<>> ELSE SubSeq(after, 1, j - 1)

\* json.Unmarshal into PackageJSON, for an object of string members written
\* as "key": "value"; any other text leaves Version empty
PackageJSONVersion(text) ==
    LET t == TrimSpace(TrimSuffix(text, <<"\n">>))
    IN  IF HasPrefix(t, <<"{">>) /\ HasSuffix(t, <<"}">>)
        THEN Between(t, <<"\"">> \o Kw_version \o <<"\"", ":", " ", "\"">>, <<"\"">>)
        ELSE <<>>

\* xml.Unmarshal into Project: the text of the <version> element
ProjectVersion(text) ==
    Between(text, <<"<">> \o Kw_version \o <<">">>, <<"<", "/">> \o Kw_version \o <<">">>)

\* the scan of lines 149-161 and 212-224: the first marked line whose second
\* part is not blank decides; a marked line without the delimiter has no second part
RECURSIVE ScanForVersion(_, _, _)
ScanForVersion(lines, isChart, sep) ==
    IF lines = <<>> THEN [v |-> <<>>, err |-> ErrCannotFindVersion]
    ELSE LET line   == Head(lines)
             marked == IF isChart THEN Contains(line, Kw_version) ELSE HasPrefix(line, Kw_VERSION)
             parts  == Split(line, sep)
         IN  IF ~marked THEN ScanForVersion(Tail(lines), isChart, sep)
             ELSE IF Len(parts) < 2 THEN [v |-> <<>>, err |-> Panic]
             ELSE IF TrimSpace(parts[2]) # <<>> THEN [v |-> TrimSpace(parts[2]), err |-> Nil]
             ELSE ScanForVersion(Tail(lines), isChart, sep)

getVersion(filename, useGitTagOnly, fs) ==
    IF useGitTagOnly THEN [v |-> <<>>, err |-> Nil, reads |-> <<>>]
    ELSE IF filename = "" THEN [v |-> <<>>, err |-> ErrNoFilename, reads |-> <<>>]
    ELSE IF filename \notin {chartyaml, packagejson, pomxml, makefile}
         THEN [v |-> <<>>, err |-> ErrNoRecognisedFile, reads |-> <<>>]
    ELSE IF ~fs[filename].exists THEN [v |-> <<>>, err |-> ErrRead, reads |-> <<"ReadFile">>]
    ELSE
    LET text == fs[filename].data
        r == IF filename = chartyaml THEN ScanForVersion(ScanLines(text), TRUE, ":")
             ELSE IF filename = makefile THEN ScanForVersion(ScanLines(text), FALSE, "=")
             ELSE LET v == IF filename = packagejson THEN PackageJSONVersion(text)
                           ELSE ProjectVersion(text)
                  IN  IF v # <<>> THEN [v |-> v, err |-> Nil]
                      ELSE [v |-> <<>>, err |-> ErrCannotFindVersion]
    IN  [v |-> r.v, err |-> r.err, reads |-> <<"ReadFile">>]

(***************************************************************************)
(* getNewVersionFromTag                                                    *)
(***************************************************************************)
\* a comparison of the major components alone
ManifestWins_MajorOnly(baseMajor, baseMinor, basePatch, major, minor, patch) ==
    baseMajor > major

\* the condition of lines 334-336, with Go's precedence: && binds tighter than ||
ManifestWins(baseMajor, baseMinor, basePatch, major, minor, patch) ==
    \/ baseMajor > major
    \/ (baseMajor = major /\ baseMinor > minor)
    \/ (baseMinor = minor /\ basePatch > patch)

\* line 307; the patch of a tag is read as a 63-bit integer by go-version,
\* so the uint64 sum does not wrap
NextPatch(patch) == patch + 1

\* every error of getLatestTag ends the resolution
TagErrorIsFatal_Always(tag, e) == e # Nil

\* line 296: the error of getLatestTag ends the resolution only without a tag
TagErrorIsFatal(tag, e) == e # Nil /\ tag = <<>>

NoBase == [err |-> Nil, Major |-> 0, Minor |-> 0, Patch |-> 0]

\* lines 325-331
BaseOfSemver(bsv) ==
    IF ~bsv.ok THEN [err |-> ErrSemver, Major |-> 0, Minor |-> 0, Patch |-> 0]
    ELSE [err |-> Nil, Major |-> bsv.Major, Minor |-> bsv.Minor, Patch |-> bsv.Patch]

\* lines 321-324
BaseOfVersion(tmpVersion) ==
    IF ~tmpVersion.ok THEN [err |-> ErrMalformed, Major |-> 0, Minor |-> 0, Patch |-> 0]
    ELSE BaseOfSemver(semver_Parse(VersionString(tmpVersion)))

\* lines 316-332: the components of the manifest's version, 0.0.0 without one
BaseVersion(baseVersion) ==
    IF baseVersion = <<>> THEN NoBase ELSE BaseOfVersion(version_NewVersion(baseVersion))

\* lines 305-307 and 334-342
NewVersionOf(sv, base) ==
    IF ManifestWins(base.Major, base.Minor, base.Patch, sv.Major, sv.Minor, NextPatch(sv.Patch))
    THEN FormatVersion(base.Major, base.Minor, base.Patch)
    ELSE FormatVersion(sv.Major, sv.Minor, NextPatch(sv.Patch))

Failed(e, calls, reads) == [version |-> <<>>, err |-> e, calls |-> calls, reads |-> reads]

\* lines 310-343, the tag parsed
ResolveManifest(lt, sv, gv, base) ==
    IF gv.err # Nil THEN Failed(gv.err, lt.calls, gv.reads)
    ELSE IF base.err # Nil THEN Failed(base.err, lt.calls, gv.reads)
    ELSE [version |-> NewVersionOf(sv, base), err |-> Nil, calls |-> lt.calls, reads |-> gv.reads]

\* lines 295-343
ResolveTag(lt, sv, gv) ==
    IF TagErrorIsFatal(lt.tag, lt.err) THEN Failed(lt.err, lt.calls, <<>>)
    ELSE IF ~sv.ok THEN Failed(ErrSemver, lt.calls, <<>>)
    ELSE ResolveManifest(lt, sv, gv, BaseVersion(gv.v))

ResolveFrom(lt, gv) == ResolveTag(lt, semver_Parse(lt.tag), gv)

getNewVersionFromTag(out, fetchOk, tagOk, filename, useGitTagOnly, fs) ==
    ResolveFrom(getLatestTag(out, fetchOk, tagOk), getVersion(filename, useGitTagOnly, fs))

(***************************************************************************)
(* setVersion: the patch of the manifest                                   *)
(***************************************************************************)
\* one numeric component: [0-9][0-9]{0,2}
ReComponent == <<"D", "D?", "D?">>

\* .[0-9][0-9]{0,2}  (the dot is unescaped: it matches any character)
ReSegment == <<".">> \o ReComponent

\* line 355
RePackage == ReComponent \o ReSegment \o <<"SEG?", "SEG?", "DEV?">>

\* line 359
ReChart == ReComponent \o ReSegment \o <<"SEG?", "SEG?", "SUF?">>

Kw_development == <<"-", "d", "e", "v", "e", "l", "o", "p", "m", "e", "n", "t">>

\* the end (exclusive) of the match of items at position p of s that a
\* backtracking, greedy matcher prefers, or -1 when there is none
RECURSIVE ReMatch(_, _, _)
ReMatch(items, s, p) ==
    IF items = <<>> THEN p
    ELSE
    LET h == Head(items)
        t == Tail(items)
        firstOf(a, b) == IF a # -1 THEN a ELSE b
    IN  IF h = "D" THEN (IF p <= Len(s) /\ IsDigit(s[p]) THEN ReMatch(t, s, p + 1) ELSE -1)
        ELSE IF h = "D?"
             THEN firstOf(IF p <= Len(s) /\ IsDigit(s[p]) THEN ReMatch(t, s, p + 1) ELSE -1,
                          ReMatch(t, s, p))
        ELSE IF h = "." THEN (IF p <= Len(s) THEN ReMatch(t, s, p + 1) ELSE -1)
        ELSE IF h = "SEG?" THEN firstOf(ReMatch(ReSegment \o t, s, p), ReMatch(t, s, p))
        ELSE IF h = "DEV?"
             THEN firstOf(IF HasPrefix(SubSeq(s, p, Len(s)), Kw_development)
                          THEN ReMatch(t, s, p + Len(Kw_development)) ELSE -1,
                          ReMatch(t, s, p))
        ELSE \* "SUF?" is (-.*)? and ends the expression: .* runs to the end of the line
             firstOf(IF p <= Len(s) /\ s[p] = "-" THEN ReMatch(t, s, Len(s) + 1) ELSE -1,
                     ReMatch(t, s, p))

\* regexp.ReplaceAllString: every non-overlapping match, leftmost first
RECURSIVE ReplaceAllFrom(_, _, _, _)
ReplaceAllFrom(items, s, p, repl) ==
    IF p > Len(s) THEN <<>>
    ELSE LET e == ReMatch(items, s, p)
         IN  IF e # -1 THEN repl \o ReplaceAllFrom(items, s, e, repl)
             ELSE <<s[p]>> \o ReplaceAllFrom(items, s, p + 1, repl)

ReplaceAllString(items, line, repl) == ReplaceAllFrom(items, line, 1, repl)

\* line 356
MatchFieldPackage == <<"\"">> \o Kw_version \o <<"\"", ":", " ", "\"">>

\* line 360
MatchFieldChart == Kw_version \o <<":", " ">>

\* lines 366-375: the new content of the manifest
PatchText(filename, text, newVersion) ==
    LET regex      == IF filename = packagejson THEN RePackage ELSE ReChart
        matchField == IF filename = packagejson THEN MatchFieldPackage ELSE MatchFieldChart
        lines      == Split(text, "\n")
        out        == [i \in 1..Len(lines) |->
                          IF Contains(lines[i], matchField)
                          THEN ReplaceAllString(regex, lines[i], newVersion)
                          ELSE lines[i]]
    IN  Join(out, <<"\n">>)

\* no default case: any file that can be read is patched as a chart
setVersion_NoDefault(filename, newVersion, fs, writeOk, addOk, commitOk) ==
    IF ~fs[filename].exists THEN [fs |-> fs, err |-> ErrRead, calls |-> <<>>]
    ELSE IF ~writeOk THEN [fs |-> fs, err |-> ErrWrite, calls |-> <<>>]
    ELSE IF ~addOk
         THEN [fs |-> [fs EXCEPT ![filename] = File(PatchText(filename, fs[filename].data, newVersion))],
               err |-> ErrGitAdd, calls |-> <<"git add">>]
    ELSE [fs |-> [fs EXCEPT ![filename] = File(PatchText(filename, fs[filename].data, newVersion))],
          err |-> IF commitOk THEN Nil ELSE ErrGitCommit, calls |-> <<"git add", "git commit">>]

setVersion(filename, newVersion, fs, writeOk, addOk, commitOk) ==
    IF ~fs[filename].exists THEN [fs |-> fs, err |-> ErrRead, calls |-> <<>>]
    ELSE IF filename \notin {packagejson, chartyaml}
         THEN [fs |-> fs, err |-> ErrUnrecognisedFilename, calls |-> <<>>]
    ELSE IF ~writeOk THEN [fs |-> fs, err |-> ErrWrite, calls |-> <<>>]
    ELSE
    LET fs2 == [fs EXCEPT ![filename] = File(PatchText(filename, fs[filename].data, newVersion))]
    IN  IF ~addOk THEN [fs |-> fs2, err |-> ErrGitAdd, calls |-> <<"git add">>]
        ELSE IF ~commitOk
             THEN [fs |-> fs2, err |-> ErrGitCommit, calls |-> <<"git add", "git commit">>]
        ELSE [fs |-> fs2, err |-> Nil, calls |-> <<"git add", "git commit">>]

(***************************************************************************)
(* The inputs of a run: flags, the repository's tags, the files            *)
(***************************************************************************)
MaxTags == 3

MaxComponent == 2

Str_release ==
    <<"r", "e", "l", "e", "a", "s", "e">>

Str_rc1 ==
    <<"-", "r", "c", "1">>

Str_SNAPSHOT ==
    <<"-", "S", "N", "A", "P", "S", "H", "O", "T">>

Txt_ChartHead ==
    <<"n", "a", "m", "e", ":", " ", "a", "p", "p", "\n", "a", "p", "p", "V", "e", "r", "s",
      "i", "o", "n", ":", " ", "1", ".", "0", "\n", "v", "e", "r", "s", "i", "o", "n", ":",
      " ">>

Txt_ChartNoVersion ==
    <<"n", "a", "m", "e", ":", " ", "a", "p", "p", "\n", "a", "p", "p", "V", "e", "r", "s",
      "i", "o", "n", ":", " ", "1", ".", "0", "\n">>

Txt_ChartEmptyVersion ==
    <<"n", "a", "m", "e", ":", " ", "a", "p", "p", "\n", "v", "e", "r", "s", "i", "o", "n",
      ":", "\n">>

Txt_ChartNoDelimiter ==
    <<"n", "a", "m", "e", ":", " ", "a", "p", "p", "\n", "#", " ", "v", "e", "r", "s", "i",
      "o", "n", "\n">>

Txt_ChartTwoOnLine ==
    <<"n", "a", "m", "e", ":", " ", "a", "p", "p", "\n", "v", "e", "r", "s", "i", "o", "n",
      ":", " ", "1", ".", "2", ".", "3", " ", "#", " ", "w", "a", "s", " ", "1", ".", "2",
      ".", "2", "\n">>

Txt_PackageHead ==
    <<"{", "\n", " ", " ", "\"", "n", "a", "m", "e", "\"", ":", " ", "\"", "a", "p", "p",
      "\"", ",", "\n", " ", " ", "\"", "p", "o", "r", "t", "\"", ":", " ", "\"", "8", ".",
      "0", "\"", ",", "\n", " ", " ", "\"", "v", "e", "r", "s", "i", "o", "n", "\"", ":",
      " ", "\"">>

Txt_PackageTail ==
    <<"\"", "\n", "}", "\n">>

Txt_PackageNoVersion ==
    <<"{", "\n", " ", " ", "\"", "n", "a", "m", "e", "\"", ":", " ", "\"", "a", "p", "p",
      "\"", "\n", "}", "\n">>

Txt_PackageOneLine ==
    <<"{", "\"", "v", "e", "r", "s", "i", "o", "n", "\"", ":", " ", "\"", "1", ".", "2",
      ".", "3", "\"", ",", " ", "\"", "n", "o", "d", "e", "\"", ":", " ", "\"", "4", ".",
      "5", ".", "6", "\"", "}", "\n">>

Txt_PomHead ==
    <<"<", "p", "r", "o", "j", "e", "c", "t", ">", "\n", "<", "v", "e", "r", "s", "i", "o",
      "n", ">">>

Txt_PomTail ==
    <<"<", "/", "v", "e", "r", "s", "i", "o", "n", ">", "\n", "<", "/", "p", "r", "o", "j",
      "e", "c", "t", ">", "\n">>

Txt_MakefileHead ==
    <<"V", "E", "R", "S", "I", "O", "N", " ", ":", "=", " ">>

Txt_MakefileTail ==
    <<"\n", "a", "l", "l", ":", "\n">>

Txt_MakefileNoDelimiter ==
    <<"V", "E", "R", "S", "I", "O", "N", "\n", "a", "l", "l", ":", "\n">>

Txt_Gradle ==
    <<"v", "e", "r", "s", "i", "o", "n", " ", "'", "1", ".", "0", "'", "\n">>

ChartText(v) == Txt_ChartHead \o v \o <<"\n">>

PackageText(v) == Txt_PackageHead \o v \o Txt_PackageTail

PomText(v) == Txt_PomHead \o v \o Txt_PomTail

MakefileText(v) == Txt_MakefileHead \o v \o Txt_MakefileTail

\* the output of "git tag": one tag per line
RECURSIVE GitTagOutput(_)
GitTagOutput(tags) ==
    IF tags = <<>> THEN <<>> ELSE Head(tags) \o <<"\n">> \o GitTagOutput(Tail(tags))

VTag(major, minor, patch) == <<"v">> \o FormatVersion(major, minor, patch)

\* tags of a repository: releases with the "v", a two-segment tag without
\* it, a pre-release, a four-segment tag, and a tag that is no version
TagPool ==
    {VTag(1, 0, 0), VTag(1, 0, 1), VTag(1, 1, 0), <<"0", ".", "1", "2">>,
     VTag(1, 1, 0) \o Str_rc1, VTag(1, 1, 0) \o <<".", "1">>, Str_release}

TagLists == UNION {[1..n -> TagPool] : n \in 0..MaxTags}

Components == 0..MaxComponent

Triples == Components \X Components \X Components

\* the manifests of each kind that a directory may hold
ManifestPool(filename) ==
    IF filename = packagejson
    THEN {PackageText(FormatVersion(1, 2, 3)), Txt_PackageNoVersion, Txt_PackageOneLine}
    ELSE IF filename = chartyaml
    THEN {ChartText(FormatVersion(1, 2, 3)), ChartText(FormatVersion(0, 1, 0) \o Str_SNAPSHOT),
          Txt_ChartNoVersion, Txt_ChartEmptyVersion, Txt_ChartNoDelimiter, Txt_ChartTwoOnLine}
    ELSE IF filename = pomxml THEN {PomText(<<"2", ".", "0">> \o Str_SNAPSHOT)}
    ELSE IF filename = makefile THEN {MakefileText(FormatVersion(1, 1, 7)), Txt_MakefileNoDelimiter}
    ELSE IF filename = buildgradle THEN {Txt_Gradle}
    ELSE {}

ManifestOfKind(filename, v) ==
    IF filename = packagejson THEN PackageText(v)
    ELSE IF filename = chartyaml THEN ChartText(v)
    ELSE IF filename = pomxml THEN PomText(v)
    ELSE MakefileText(v)

\* a directory holding at most the one manifest and the old VERSION file
Directory(filename, manifest, sentinel) ==
    [f \in FileNames |-> IF f = filename THEN manifest
                         ELSE IF f = VERSIONFile THEN sentinel ELSE NoFile]

(***************************************************************************)
(* Run                                                                     *)
(***************************************************************************)
VARIABLES
    Filename,       \* o.Filename
    Tag,            \* o.Tag
    UseGitTagOnly,  \* o.UseGitTagOnly
    NewVersion,     \* o.NewVersion
    gitTagOut,      \* what "git tag" prints in the repository
    files,          \* the directory: file name -> [exists, data]
    pc,             \* where Run is
    err,            \* the error Run returns
    calls,          \* the external calls issued so far, in order
    versionFlag,    \* the --version flag as given
    files0          \* the directory when Run started

vars == <<Filename, Tag, UseGitTagOnly, NewVersion, gitTagOut, files, pc, err, calls,
          versionFlag, files0>>

ErrWriteVERSION == "write VERSION failed"

InitWith(flag, filename, only, tag, out, dir) ==
    /\ versionFlag = flag
    /\ NewVersion = flag
    /\ Filename = filename
    /\ UseGitTagOnly = only
    /\ Tag = tag
    /\ gitTagOut = out
    /\ files = dir
    /\ files0 = dir
    /\ pc = "Run"
    /\ err = Nil
    /\ calls = <<>>

\* any flags, a few repositories, every kind of manifest present or missing
Init ==
    \E flag \in {<<>>, FormatVersion(1, 3, 0)},
       filename \in {"", packagejson, chartyaml, pomxml, makefile, buildgradle},
       only \in BOOLEAN, tag \in BOOLEAN,
       out \in {<<>>, GitTagOutput(<<VTag(1, 0, 0), VTag(1, 0, 1), VTag(1, 1, 0)>>),
                GitTagOutput(<<Str_release>>), GitTagOutput(<<VTag(1, 0, 999)>>)},
       sentinel \in {NoFile, File(FormatVersion(0, 1, 0))} :
        \E manifest \in {File(m) : m \in ManifestPool(filename)} \cup {NoFile} :
            InitWith(flag, filename, only, tag, out, Directory(filename, manifest, sentinel))

\* tag-only mode, no override: every list of up to MaxTags tags of TagPool
InitTags ==
    \E ts \in TagLists :
        InitWith(<<>>, "", TRUE, FALSE, GitTagOutput(ts), Directory("", NoFile, NoFile))

\* the text of version m in a manifest: a pom.xml declares a snapshot
DeclaredVersion(filename, m) ==
    FormatVersion(m[1], m[2], m[3]) \o (IF filename = pomxml THEN Str_SNAPSHOT ELSE <<>>)

\* manifest mode, no override: one tag and a manifest declaring a version,
\* components up to MaxComponent
InitManifest ==
    \E t \in Triples, m \in Triples, filename \in {packagejson, chartyaml, pomxml, makefile} :
        InitWith(<<>>, filename, FALSE, FALSE, GitTagOutput(<<VTag(t[1], t[2], t[3])>>),
                 Directory(filename,
                           File(ManifestOfKind(filename, DeclaredVersion(filename, m))),
                           NoFile))

\* lines 91-94: the resolver's result taken over; a panic ends the process
Resolved(r) ==
    /\ calls' = calls \o r.calls \o r.reads
    /\ err' = r.err
    /\ NewVersion' = IF r.err # Nil THEN NewVersion ELSE r.version
    /\ pc' = IF r.err = Panic THEN "panic" ELSE IF r.err # Nil THEN "done" ELSE "WriteFile"

\* lines 105-108
Patched(r) ==
    /\ files' = r.fs
    /\ calls' = calls \o <<"setVersion">> \o r.calls
    /\ err' = r.err
    /\ pc' = IF r.err # Nil THEN "done" ELSE "tag"

\* lines 90-95
RunResolve ==
    /\ pc = "Run"
    /\ IF NewVersion = <<>>
       THEN \E fetchOk \in BOOLEAN, tagOk \in BOOLEAN :
                Resolved(getNewVersionFromTag(gitTagOut, fetchOk, tagOk,
                                              Filename, UseGitTagOnly, files))
       ELSE /\ pc' = "WriteFile"
            /\ UNCHANGED <<NewVersion, err, calls>>
    /\ UNCHANGED <<Filename, Tag, UseGitTagOnly, gitTagOut, files, versionFlag, files0>>

\* the write of VERSION left out
RunWriteFile_NoWrite ==
    /\ pc = "WriteFile"
    /\ calls' = Append(calls, "WriteFile VERSION")
    /\ pc' = "setVersion"
    /\ UNCHANGED <<Filename, Tag, UseGitTagOnly, NewVersion, gitTagOut, files, err,
                   versionFlag, files0>>

\* lines 98-101
RunWriteFile ==
    /\ pc = "WriteFile"
    /\ calls' = Append(calls, "WriteFile VERSION")
    /\ \E ok \in BOOLEAN :
        IF ok
        THEN /\ files' = [files EXCEPT ![VERSIONFile] = File(NewVersion)]
             /\ pc' = "setVersion"
             /\ UNCHANGED err
        ELSE /\ err' = ErrWriteVERSION
             /\ pc' = "done"
             /\ UNCHANGED files
    /\ UNCHANGED <<Filename, Tag, UseGitTagOnly, NewVersion, gitTagOut, versionFlag, files0>>

\* lines 104-109
RunSetVersion ==
    /\ pc = "setVersion"
    /\ IF Filename # ""
       THEN \E writeOk \in BOOLEAN, addOk \in BOOLEAN, commitOk \in BOOLEAN :
                Patched(setVersion(Filename, NewVersion, files, writeOk, addOk, commitOk))
       ELSE /\ pc' = "tag"
            /\ UNCHANGED <<files, calls, err>>
    /\ UNCHANGED <<Filename, Tag, UseGitTagOnly, NewVersion, gitTagOut, versionFlag, files0>>

\* lines 112-124: StepTagOptions.Run is the external tagging step
RunTag ==
    /\ pc = "tag"
    /\ IF Tag
       THEN \E ok \in BOOLEAN :
                /\ calls' = Append(calls, "jx step tag")
                /\ err' = IF ok THEN Nil ELSE ErrStepTag
       ELSE UNCHANGED <<calls, err>>
    /\ pc' = "done"
    /\ UNCHANGED <<Filename, Tag, UseGitTagOnly, NewVersion, gitTagOut, files, versionFlag, files0>>

Next == RunResolve \/ RunWriteFile \/ RunSetVersion \/ RunTag

Spec == Init /\ [][Next]_vars

SpecTags == InitTags /\ [][Next]_vars

SpecManifest == InitManifest /\ [][Next]_vars

(***************************************************************************)
(* What the properties speak of                                            *)
(***************************************************************************)
Ran(call) == \E i \in 1..Len(calls) : calls[i] = call

\* the state right after the resolver ran with both git commands succeeding
JustResolved ==
    /\ pc # "Run"
    /\ versionFlag = <<>>
    /\ Len(calls) >= 2
    /\ err \notin {ErrFetchTags, ErrGitTag}
    /\ ~Ran("WriteFile VERSION")

\* the listed tags that parse as versions
ParseableTags == ParsedVersions(VersionsRaw(TagsOf(gitTagOut)))

\* their major, minor and patch
TagTriples ==
    {<<SegAt(ParseableTags[i], 1), SegAt(ParseableTags[i], 2), SegAt(ParseableTags[i], 3)>> :
        i \in 1..Len(ParseableTags)}

AllTagsThreePart == \A i \in 1..Len(ParseableTags) : Len(ParseableTags[i].segs) <= 3

\* strictly greater: major, then minor, then patch
LexGreater(a, b) ==
    \/ a[1] > b[1]
    \/ a[1] = b[1] /\ a[2] > b[2]
    \/ a[1] = b[1] /\ a[2] = b[2] /\ a[3] > b[3]

MaxTagTriple == CHOOSE t \in TagTriples : \A u \in TagTriples : ~LexGreater(u, t)

\* T': the maximum tag with its patch incremented
TagDerived == <<MaxTagTriple[1], MaxTagTriple[2], MaxTagTriple[3] + 1>>

TripleString(t) == FormatVersion(t[1], t[2], t[3])

\* M: the version the manifest declared when Run started
ManifestBase == BaseVersion(getVersion(Filename, UseGitTagOnly, files0).v)

ManifestTriple == <<ManifestBase.Major, ManifestBase.Minor, ManifestBase.Patch>>

ManifestMode ==
    /\ versionFlag = <<>>
    /\ ~UseGitTagOnly
    /\ pc = "WriteFile"
    /\ TagTriples # {}

\* the manifest was patched: written and staged
PatchDone == Ran("git add") /\ Filename \in {packagejson, chartyaml}

\* C1: in manifest mode, a manifest version that is not strictly greater than
\* the tag-derived version T' leaves the resolver output at exactly T'.
C1_NotGreaterGivesTagDerived ==
    (ManifestMode /\ ~LexGreater(ManifestTriple, TagDerived))
        => NewVersion = TripleString(TagDerived)

\* C2: in manifest mode, a manifest version strictly greater (major, then
\* minor, then patch) than the tag-derived version T' is the resolver output,
\* all three components taken from the manifest.
C2_GreaterManifestWins ==
    (ManifestMode /\ LexGreater(ManifestTriple, TagDerived))
        => NewVersion = TripleString(ManifestTriple)

\* C2: the tag v1.1.0 (tag-derived 1.1.1) and a Chart.yaml declaring 2.0.0
\* resolved to 2.0.0
C2_Witness ==
    /\ ManifestMode
    /\ gitTagOut = <<"v", "1", ".", "1", ".", "0", "\n">>
    /\ Filename = chartyaml
    /\ files0[chartyaml].data = ChartText(<<"2", ".", "0", ".", "0">>)
    /\ TagDerived = <<1, 1, 1>>
    /\ ManifestTriple = <<2, 0, 0>>
    /\ LexGreater(ManifestTriple, TagDerived)
    /\ NewVersion = <<"2", ".", "0", ".", "0">>

C4_NoTagsReported ==
    (JustResolved /\ UseGitTagOnly /\ TagTriples = {}) => (pc = "done" /\ err = ErrNoTags)

\* C4 amended: without parseable tags and without override getLatestTag gives
\* the no-tags-found error together with the baseline 0.0.0, and the error is
\* never reported upward: in tag-only mode the resolver succeeds with 0.0.1,
\* which a run that ends without error has written to VERSION.
C4_NoTagsStartAtZero ==
    (versionFlag = <<>> /\ TagTriples = {})
        => /\ LatestAmong(TagsOf(gitTagOut)) = [tag |-> ZeroTag, err |-> ErrNoTags]
           /\ err # ErrNoTags
           /\ (JustResolved /\ UseGitTagOnly) => (pc = "WriteFile" /\ err = Nil)
           /\ (UseGitTagOnly /\ pc \in {"WriteFile", "setVersion", "tag"})
                 => NewVersion = <<"0", ".", "0", ".", "1">>
           /\ (UseGitTagOnly /\ pc = "done" /\ err = Nil)
                 => files[VERSIONFile] = File(<<"0", ".", "0", ".", "1">>)

\* C4: a tag-only run in a repository without tags ended well with 0.0.1
C4_Witness ==
    /\ versionFlag = <<>>
    /\ UseGitTagOnly
    /\ gitTagOut = <<>>
    /\ pc = "done"
    /\ err = Nil
    /\ files[VERSIONFile] = File(<<"0", ".", "0", ".", "1">>)

\* C5: an override is taken verbatim without tag fetch or manifest lookup;
\* VERSION holds the version before the patch step or the tag step starts,
\* and still holds it when Run ends, also when one of those steps failed.
C5_SentinelWrittenFirst ==
    /\ (pc = "WriteFile" /\ versionFlag # <<>>) => (NewVersion = versionFlag /\ calls = <<>>)
    /\ pc \in {"setVersion", "tag"} => files[VERSIONFile] = File(NewVersion)
    /\ (pc = "done" /\ Ran("WriteFile VERSION") /\ err # ErrWriteVERSION)
          => files[VERSIONFile] = File(NewVersion)
    /\ \A i \in 1..Len(calls) :
          calls[i] \in {"setVersion", "git add", "git commit", "jx step tag"}
              => \E j \in 1..(i - 1) : calls[j] = "WriteFile VERSION"

\* C5: the commit of the patched manifest failed and VERSION holds the version
C5_Witness ==
    /\ pc = "done"
    /\ err = ErrGitCommit
    /\ versionFlag = <<>>
    /\ NewVersion # <<>>
    /\ files[VERSIONFile] = File(NewVersion)
    /\ files[VERSIONFile] # files0[VERSIONFile]

\* C6: a run without any flag in a repository with parseable tags resolves
\* the version from the tags alone, writes it to VERSION and succeeds.
C6_NoFlagsSucceeds ==
    (/\ versionFlag = <<>> /\ Filename = "" /\ ~UseGitTagOnly /\ ~Tag
     /\ TagTriples # {} /\ AllTagsThreePart
     /\ pc = "done"
     /\ err \notin {ErrFetchTags, ErrGitTag, ErrWriteVERSION})
        => /\ err = Nil
           /\ files[VERSIONFile] = File(TripleString(TagDerived))

\* C7 as stated: setVersion with a file name other than package.json and
\* Chart.yaml fails with the unrecognised-filename error, the file existing
\* or not, and changes nothing.
C7_UnrecognisedAlways ==
    (Ran("setVersion") /\ Filename \notin {packagejson, chartyaml})
        => /\ pc = "done"
           /\ err = ErrUnrecognisedFilename
           /\ files[Filename] = files0[Filename]
           /\ ~Ran("git add") /\ ~Ran("git commit")

\* C7 amended: setVersion with a file name other than package.json and
\* Chart.yaml fails and changes nothing: with the unrecognised-filename error
\* when the file can be read, with the read error when it cannot.
C7_UnrecognisedOrUnreadable ==
    (Ran("setVersion") /\ Filename \notin {packagejson, chartyaml})
        => /\ pc = "done"
           /\ err = IF files0[Filename].exists THEN ErrUnrecognisedFilename ELSE ErrRead
           /\ files[Filename] = files0[Filename]
           /\ ~Ran("git add") /\ ~Ran("git commit")

\* C7: build.gradle exists and the patch step refused it
C7_Witness ==
    /\ Ran("setVersion")
    /\ Filename = buildgradle
    /\ files0[buildgradle].exists
    /\ err = ErrUnrecognisedFilename
    /\ files[buildgradle] = files0[buildgradle]

\* the first match alone replaced
RECURSIVE ReplaceFirstFrom(_, _, _, _)
ReplaceFirstFrom(items, s, p, repl) ==
    IF p > Len(s) THEN <<>>
    ELSE IF ReMatch(items, s, p) # -1
         THEN repl \o SubSeq(s, ReMatch(items, s, p), Len(s))
    ELSE <<s[p]>> \o ReplaceFirstFrom(items, s, p + 1, repl)

LinesBefore == Split(files0[Filename].data, "\n")

LinesAfter == Split(files[Filename].data, "\n")

\* C8: the patch keeps the number of lines, leaves every line without the
\* marker as it was, and on a line with the marker replaces only the first
\* version-shaped sequence by the new version.
C8_OnlyFirstSequenceReplaced ==
    PatchDone =>
        /\ Len(LinesAfter) = Len(LinesBefore)
        /\ \A i \in 1..Len(LinesBefore) :
              IF Contains(LinesBefore[i],
                          IF Filename = packagejson THEN MatchFieldPackage ELSE MatchFieldChart)
              THEN LinesAfter[i] =
                     ReplaceFirstFrom(IF Filename = packagejson THEN RePackage ELSE ReChart,
                                      LinesBefore[i], 1, NewVersion)
              ELSE LinesAfter[i] = LinesBefore[i]

\* C9: patching the patched manifest again with the same version changes nothing.
C9_PatchIdempotent ==
    PatchDone => PatchText(Filename, files[Filename].data, NewVersion) = files[Filename].data

\* the manifests of the directory whose version field is absent or empty
NoVersionManifests ==
    {Txt_ChartNoVersion, Txt_ChartEmptyVersion, Txt_ChartNoDelimiter,
     Txt_PackageNoVersion, Txt_MakefileNoDelimiter}

\* C10: the lookup in a readable manifest whose version field is absent or
\* empty ends with the cannot-find-version error, also when a marked line
\* lacks its delimiter.
C10_MissingVersionIsError ==
    (/\ versionFlag = <<>>
     /\ Ran("ReadFile")
     /\ files0[Filename].exists
     /\ files0[Filename].data \in NoVersionManifests)
        => (pc = "done" /\ err = ErrCannotFindVersion)

====
